---- MODULE Spec2Model ----
(***************************************************************************)
(* Model of the LLM Automation Flow Builder: the graph store kept by App   *)
(* (nodes, edges, global settings), the validation warnings, the compiler  *)
(* generateFlowJson and the reconstructor restoreFlowFromJson.             *)
(*                                                                         *)
(* Representation                                                          *)
(*   - a JavaScript string is a sequence of one-character strings, so that *)
(*     join, split, parseInt and template literals are computed and not    *)
(*     assumed;                                                            *)
(*   - an optional value is a sequence of length at most one: <<>> is      *)
(*     undefined / absent, <<x>> is x;                                     *)
(*   - time_amount and max_retry are integers, 0 standing for every falsy  *)
(*     value (undefined, NaN, 0): the code only tests their truthiness or  *)
(*     prints them when truthy;                                            *)
(*   - the edge array is a bag of [source, target] records: no code reads  *)
(*     the position of an edge in the array, and the edge id is a function *)
(*     of (source, target) both in onConnect and in restoreFlowFromJson;   *)
(*   - node ids are opaque: 0 is 'start', a fresh id is a positive integer *)
(*     no node of the array carries.                                       *)
(***************************************************************************)
EXTENDS Integers, Sequences, FiniteSets, Bags, TLC

VARIABLES
    nodes,           \* App: useNodesState, the node array
    edges,           \* App: useEdgesState, the edge array (a bag)
    flowName,        \* App: useState(INITIAL_FLOW_NAME)
    iterateFlow,     \* App: useState(false)
    getIterateList,  \* App: useState("")
    reads,           \* FileReader loads started by handleFileChange, not yet delivered
    generatedResult  \* App: useState({ json: {} }), the document last exported

vars == <<nodes, edges, flowName, iterateFlow, getIterateList, reads, generatedResult>>

(***************************************************************************)
(* Bounds                                                                  *)
(***************************************************************************)
MaxSteps == 2        \* step nodes in the editor
MaxOrder == 2        \* largest sequence_order addNode hands out
MaxReads == 2        \* file reads in flight
RtSteps == 3         \* step nodes of a graph given to the compiler
RtEdges == 2         \* edges of a graph given to the compiler
VSteps == 3          \* step nodes of a graph given to the validator
VEdges == 2          \* edges of a graph given to the validator

(***************************************************************************)
(* Strings                                                                 *)
(***************************************************************************)
None == <<>>
Some(x) == <<x>>
IsSome(o) == Len(o) > 0
Get(o) == o[1]

Digits == <<"0", "1", "2", "3", "4", "5", "6", "7", "8", "9">>
DigitSet == {Digits[i] : i \in 1..10}
DigitVal(c) == (CHOOSE i \in 1..10 : Digits[i] = c) - 1

Str_last == <<"l", "a", "s", "t">>
Str_day == <<"d", "a", "y">>
Str_month == <<"m", "o", "n", "t", "h">>
Str_Step == <<"S", "t", "e", "p", " ">>
Str_Imported == <<"I", "m", "p", "o", "r", "t", "e", "d", " ", "F", "l", "o", "w">>
INITIAL_FLOW_NAME == <<"M", "y", " ", "N", "e", "w", " ", "A", "u", "t", "o", "m", "a", "t", "i", "o", "n">>

\* Number.prototype.toString of an integer
RECURSIVE NatToStr(_)
NatToStr(n) == IF n < 10 THEN <<Digits[n + 1]>>
               ELSE NatToStr(n \div 10) \o <<Digits[(n % 10) + 1]>>
IntToStr(i) == IF i < 0 THEN <<"-">> \o NatToStr(0 - i) ELSE NatToStr(i)

\* String.prototype.trim (the whitespace of the model is the blank)
RECURSIVE TrimLeft(_)
TrimLeft(s) == IF s # <<>> /\ Head(s) = " " THEN TrimLeft(Tail(s)) ELSE s
RECURSIVE TrimRight(_)
TrimRight(s) == IF s # <<>> /\ s[Len(s)] = " " THEN TrimRight(SubSeq(s, 1, Len(s) - 1)) ELSE s
Trim(s) == TrimRight(TrimLeft(s))

\* the digits a string starts with
RECURSIVE LeadingDigits(_)
LeadingDigits(s) == IF s # <<>> /\ Head(s) \in DigitSet
                    THEN <<Head(s)>> \o LeadingDigits(Tail(s)) ELSE <<>>
RECURSIVE DigitsToNat(_, _)
DigitsToNat(ds, acc) == IF ds = <<>> THEN acc
                        ELSE DigitsToNat(Tail(ds), 10 * acc + DigitVal(Head(ds)))

\* parseInt(s, 10): leading blanks skipped, an optional sign, then the longest
\* run of digits; None is NaN
parseInt(s) ==
    LET t == TrimLeft(s)
        neg == t # <<>> /\ Head(t) = "-"
        u == IF t # <<>> /\ Head(t) \in {"-", "+"} THEN Tail(t) ELSE t
        ds == LeadingDigits(u)
    IN IF ds = <<>> THEN None
       ELSE Some(IF neg THEN 0 - DigitsToNat(ds, 0) ELSE DigitsToNat(ds, 0))

\* String.prototype.split(sep) for a one-character separator
RECURSIVE Split(_, _)
Split(s, sep) ==
    IF \A i \in 1..Len(s) : s[i] # sep THEN <<s>>
    ELSE LET k == CHOOSE i \in 1..Len(s) : s[i] = sep /\ \A j \in 1..(i - 1) : s[j] # sep
         IN <<SubSeq(s, 1, k - 1)>> \o Split(SubSeq(s, k + 1, Len(s)), sep)

\* Array.prototype.join(',') of an array of integers
RECURSIVE JoinInts(_)
JoinInts(xs) == IF xs = <<>> THEN <<>>
                ELSE IF Len(xs) = 1 THEN IntToStr(xs[1])
                ELSE IntToStr(xs[1]) \o <<",">> \o JoinInts(Tail(xs))

\* Array.prototype.sort((a, b) => a - b) on integers: ascending
RECURSIVE InsertInt(_, _)
InsertInt(x, xs) ==
    IF xs = <<>> THEN <<x>>
    ELSE IF x < Head(xs) THEN <<x>> \o xs
    ELSE <<Head(xs)>> \o InsertInt(x, Tail(xs))
RECURSIVE SortInts(_)
SortInts(xs) ==
    IF xs = <<>> THEN <<>>
    ELSE InsertInt(xs[Len(xs)], SortInts(SubSeq(xs, 1, Len(xs) - 1)))

Range(f) == {f[i] : i \in DOMAIN f}

(***************************************************************************)
(* Data: types.ts                                                          *)
(***************************************************************************)
StepType_SQL == "sql"
StepType_LLM == "llm"
StepType_CONCAT == "concat"
StepTypes == {StepType_SQL, StepType_LLM, StepType_CONCAT}
TimeGrains == {Str_day, Str_month}

\* JavaScript truthiness of an optional string / of an optional enum value
Truthy(o) == IsSome(o) /\ Get(o) # <<>>
TruthyAtom(o) == IsSome(o) /\ Get(o) # ""

StartId == 0

\* INITIAL_NODES[0], and the node restoreFlowFromJson pushes first
StartNode ==
    [id |-> StartId, label |-> <<"S">>, sequence_order |-> 0, type |-> None,
     value |-> <<>>, append_iteration_column |-> None, append_time_column |-> None,
     time_amount |-> 0, time_grain |-> None, time_mode |-> None,
     reference_date |-> None, llm_model |-> None, max_retry |-> 0,
     isStartNode |-> TRUE]

\* depends_on of a step record: absent, a string, a number or an array
\* (an array element is given by String(element))
DepAbsent == [kind |-> "absent", str |-> <<>>, num |-> 0, arr |-> <<>>]
DepString(s) == [kind |-> "string", str |-> s, num |-> 0, arr |-> <<>>]
DepNumber(n) == [kind |-> "number", str |-> <<>>, num |-> n, arr |-> <<>>]
DepArray(a) == [kind |-> "array", str |-> <<>>, num |-> 0, arr |-> a]

(***************************************************************************)
(* Compiler: generateFlowJson                                              *)
(***************************************************************************)
Map(xs, F(_)) == [i \in 1..Len(xs) |-> F(xs[i])]
OrderOf(n) == n.sequence_order
NotStart(n) == ~n.isStartNode

\* [...stepNodes].sort((a, b) => a.data.sequence_order - b.data.sequence_order)
RECURSIVE InsertNode(_, _)
InsertNode(x, xs) ==
    IF xs = <<>> THEN <<x>>
    ELSE IF x.sequence_order < Head(xs).sequence_order THEN <<x>> \o xs
    ELSE <<Head(xs)>> \o InsertNode(x, Tail(xs))
RECURSIVE SortNodes(_)
SortNodes(xs) ==
    IF xs = <<>> THEN <<>>
    ELSE InsertNode(xs[Len(xs)], SortNodes(SubSeq(xs, 1, Len(xs) - 1)))

sortedSteps(ns) == SortNodes(SelectSeq(ns, NotStart))

\* the targets of the edges whose source is 'start'
iterableStepIds(es) == {e.target : e \in {x \in BagToSet(es) : x.source = StartId}}

\* mutant: the iterated steps are listed in stored order
iterable_steps_StoredOrder(ns, es) ==
    LET Iterated(n) == n.id \in iterableStepIds(es)
    IN Map(SelectSeq(SelectSeq(ns, NotStart), Iterated), OrderOf)

iterable_steps(ns, es) ==
    LET Iterated(n) == n.id \in iterableStepIds(es)
    IN Map(SelectSeq(sortedSteps(ns), Iterated), OrderOf)

\* mutant: the start node counts as a dependency
dependsOnOrders_WithStart(ns, es, node) ==
    LET sourceNodeIds == {e.source : e \in {x \in BagToSet(es) : x.target = node.id}}
        IsSource(n) == n.id \in sourceNodeIds
    IN JoinInts(SortInts(Map(SelectSeq(ns, IsSource), OrderOf)))

\* the sequence_orders of the non-start sources of the edges into node,
\* sorted and comma-joined
dependsOnOrders(ns, es, node) ==
    LET sourceNodeIds == {e.source : e \in {x \in BagToSet(es) :
                                             x.target = node.id /\ x.source # StartId}}
        IsSource(n) == n.id \in sourceNodeIds /\ ~n.isStartNode
    IN JoinInts(SortInts(Map(SelectSeq(ns, IsSource), OrderOf)))

\* mutant: the grain is written without the plural 's'
time_range_Singular(node) ==
    Str_last \o <<"_">> \o IntToStr(node.time_amount) \o <<"_">> \o Get(node.time_grain)

time_range(node) ==
    Str_last \o <<"_">> \o IntToStr(node.time_amount) \o <<"_">> \o Get(node.time_grain) \o <<"s">>

stepJson(ns, es, node) ==
    LET deps == dependsOnOrders(ns, es, node)
        isSql == node.type = Some(StepType_SQL)
        timed == isSql /\ Truthy(node.append_time_column)
    IN [sequence_order |-> node.sequence_order,
        sequence_name |-> Some(node.label),
        type |-> IF TruthyAtom(node.type) THEN node.type ELSE Some(StepType_SQL),
        value |-> Some(node.value),
        depends_on |-> IF deps # <<>> THEN DepString(deps) ELSE DepAbsent,
        max_retry |-> node.max_retry,
        append_iteration_column |->
            IF isSql /\ Truthy(node.append_iteration_column)
            THEN node.append_iteration_column ELSE None,
        append_time_column |-> IF timed THEN node.append_time_column ELSE None,
        time_range |->
            IF timed /\ node.time_amount # 0 /\ Truthy(node.time_grain)
            THEN Some(time_range(node)) ELSE None,
        time_grain |-> IF timed /\ Truthy(node.time_grain) THEN node.time_grain ELSE None,
        time_mode |-> IF timed /\ TruthyAtom(node.time_mode) THEN node.time_mode ELSE None,
        reference_date |->
            IF isSql /\ Truthy(node.reference_date) THEN node.reference_date ELSE None,
        llm_model |->
            IF node.type = Some(StepType_LLM) /\ Truthy(node.llm_model)
            THEN node.llm_model ELSE None]

generateFlowJson(ns, es, cfgFlowName, cfgIterateFlow, cfgGetIterateList) ==
    LET Step(n) == stepJson(ns, es, n)
    IN [flow_name |-> Some(cfgFlowName),
        iterate_flow |-> cfgIterateFlow,
        steps |-> Some(Map(sortedSteps(ns), Step)),
        iterable_steps |-> IF cfgIterateFlow THEN Some(iterable_steps(ns, es)) ELSE None,
        get_iterate_list |-> IF cfgIterateFlow THEN Some(cfgGetIterateList) ELSE None]


(***************************************************************************)
(* Reconstructor: restoreFlowFromJson                                      *)
(***************************************************************************)
Edge(src, tgt) == [source |-> src, target |-> tgt]

RECURSIVE BagOfSeq(_)
BagOfSeq(xs) == IF xs = <<>> THEN EmptyBag ELSE SetToBag({Head(xs)}) (+) BagOfSeq(Tail(xs))

\* Array.isArray(json.steps) ? json.steps : nothing
stepsOf(json) == IF IsSome(json.steps) THEN Get(json.steps) ELSE <<>>

\* sequenceToIdMap[seq]: the id given to the last step with that sequence_order;
\* the step at position i of json.steps gets the fresh id i
sequenceToIdMap(json, seq) ==
    LET at == {i \in 1..Len(stepsOf(json)) : stepsOf(json)[i].sequence_order = seq}
    IN IF at = {} THEN None ELSE Some(CHOOSE i \in at : \A j \in at : j <= i)

\* mutant: the plural 's' of the grain is kept
stripPlural_Keep(g) == g

\* grainStr.endsWith('s') ? grainStr.slice(0, -1) : grainStr
stripPlural(g) == IF g # <<>> /\ g[Len(g)] = "s" THEN SubSeq(g, 1, Len(g) - 1) ELSE g

\* the parts of step.time_range, when it has the three the parse needs
timeParts(step) ==
    IF Truthy(step.time_range) /\ Len(Split(Get(step.time_range), "_")) >= 3
    THEN Some(Split(Get(step.time_range), "_")) ELSE None

restored_time_amount(step) ==
    IF IsSome(timeParts(step)) /\ IsSome(parseInt(Get(timeParts(step))[2]))
    THEN Get(parseInt(Get(timeParts(step))[2])) ELSE 0

restored_time_grain(step) ==
    IF Truthy(step.time_range)
    THEN IF IsSome(timeParts(step)) /\ stripPlural(Get(timeParts(step))[3]) \in TimeGrains
         THEN Some(stripPlural(Get(timeParts(step))[3])) ELSE None
    ELSE IF Truthy(step.time_grain) THEN step.time_grain ELSE None

nodeData(step, id) ==
    [id |-> id,
     label |-> IF Truthy(step.sequence_name) THEN Get(step.sequence_name)
               ELSE Str_Step \o IntToStr(step.sequence_order),
     sequence_order |-> step.sequence_order,
     type |-> step.type,
     value |-> IF Truthy(step.value) THEN Get(step.value) ELSE <<>>,
     append_iteration_column |-> step.append_iteration_column,
     append_time_column |-> step.append_time_column,
     time_amount |-> restored_time_amount(step),
     time_grain |-> restored_time_grain(step),
     time_mode |-> step.time_mode,
     reference_date |-> step.reference_date,
     llm_model |-> step.llm_model,
     max_retry |-> step.max_retry,
     isStartNode |-> FALSE]

newNodes(json) ==
    <<StartNode>> \o [i \in 1..Len(stepsOf(json)) |-> nodeData(stepsOf(json)[i], i)]

\* mutant: no edge is rebuilt from iterable_steps
iterationEdges_None(json) == <<>>

\* A. iteration edges, one per entry of iterable_steps that resolves
iterationEdges(json) ==
    IF json.iterate_flow /\ IsSome(json.iterable_steps)
    THEN LET Resolves(seq) == IsSome(sequenceToIdMap(json, seq))
             Mk(seq) == Edge(StartId, Get(sequenceToIdMap(json, seq)))
         IN Map(SelectSeq(Get(json.iterable_steps), Resolves), Mk)
    ELSE <<>>

\* the sources a truthy depends_on names, NaN entries as None
dependsOnSources(dep) ==
    IF dep.kind = "string" THEN LET P(x) == parseInt(Trim(x)) IN Map(Split(dep.str, ","), P)
    ELSE IF dep.kind = "number" THEN <<Some(dep.num)>>
    ELSE IF dep.kind = "array" THEN Map(dep.arr, parseInt)
    ELSE <<>>

dependsOnTruthy(dep) ==
    \/ dep.kind = "string" /\ dep.str # <<>>
    \/ dep.kind = "number" /\ dep.num # 0
    \/ dep.kind = "array"

\* B. the edges one step record contributes
stepEdges(json, step) ==
    LET targetId == sequenceToIdMap(json, step.sequence_order)
        Resolves(src) == IsSome(src) /\ IsSome(sequenceToIdMap(json, Get(src))) /\ IsSome(targetId)
        Mk(src) == Edge(Get(sequenceToIdMap(json, Get(src))), Get(targetId))
        isIterated == json.iterate_flow /\ IsSome(json.iterable_steps)
                      /\ 1 \in Range(Get(json.iterable_steps))
        prev == sequenceToIdMap(json, step.sequence_order - 1)
    IN IF dependsOnTruthy(step.depends_on)
       THEN Map(SelectSeq(dependsOnSources(step.depends_on), Resolves), Mk)
       ELSE IF step.sequence_order = 1
            THEN IF isIterated THEN <<>> ELSE <<Edge(StartId, Get(targetId))>>
            ELSE IF IsSome(prev) /\ IsSome(targetId)
                 THEN <<Edge(Get(prev), Get(targetId))>> ELSE <<>>

RECURSIVE dependencyEdges(_, _)
dependencyEdges(json, steps) ==
    IF steps = <<>> THEN <<>>
    ELSE stepEdges(json, Head(steps)) \o dependencyEdges(json, Tail(steps))

newEdges(json) ==
    BagOfSeq(iterationEdges(json) \o dependencyEdges(json, stepsOf(json)))

restoreFlowFromJson(json) ==
    [nodes |-> newNodes(json),
     edges |-> newEdges(json),
     flowName |-> IF Truthy(json.flow_name) THEN Get(json.flow_name) ELSE Str_Imported,
     iterateFlow |-> json.iterate_flow,
     getIterateList |-> IF Truthy(json.get_iterate_list) THEN Get(json.get_iterate_list)
                        ELSE <<>>]

\* A field holding a value of a type the FlowJson interface does not name is
\* written beside the field: a null entry of steps is NullStep, a numeric
\* time_range is time_range_number, an iterable_steps that is a number is
\* iterable_steps_number.
NullStep == [isNull |-> TRUE]
IsNullStep(step) == "isNull" \in DOMAIN step
HasNumber(rec, field) == field \in DOMAIN rec /\ rec[field] # 0

\* restoreFlowFromJson throws a TypeError: step.sequence_order of a null
\* entry, step.time_range.split of a number, json.iterable_steps.forEach of
\* a number
restoreThrows(json) ==
    \/ \E k \in 1..Len(stepsOf(json)) :
          \/ IsNullStep(stepsOf(json)[k])
          \/ HasNumber(stepsOf(json)[k], "time_range_number")
    \/ json.iterate_flow /\ HasNumber(json, "iterable_steps_number")


(***************************************************************************)
(* Validation: App, flowWarnings                                           *)
(***************************************************************************)
\* orders.filter((item, index) => orders.indexOf(item) !== index)
duplicatesOf(orders) ==
    LET indexOf(item) == CHOOSE i \in 1..Len(orders) :
                             orders[i] = item /\ \A j \in 1..(i - 1) : orders[j] # item
        IsDup(i) == indexOf(orders[i]) # i
        dups == {i \in 1..Len(orders) : IsDup(i)}
    IN [k \in 1..Cardinality(dups) |->
          orders[CHOOSE i \in dups : Cardinality({j \in dups : j < i}) = k - 1]]

\* mutant: the start node is left out of the orders
duplicateOrders_StepsOnly(ns) == duplicatesOf(Map(SelectSeq(ns, NotStart), OrderOf))

\* the orders are those of all the nodes, the start node among them
duplicateOrders(ns) == duplicatesOf(Map(ns, OrderOf))

hasDuplicates(ns) == Len(duplicateOrders(ns)) > 0

startEdgesCount(es) ==
    BagCardinality([e \in {x \in BagToSet(es) : x.source = StartId} |-> es[e]])

\* stepNodes.reduce((prev, current) =>
\*     prev.data.sequence_order > current.data.sequence_order ? prev : current, stepNodes[0])
RECURSIVE reduceLast(_, _)
reduceLast(prev, rest) ==
    IF rest = <<>> THEN prev
    ELSE reduceLast(IF prev.sequence_order > Head(rest).sequence_order THEN prev ELSE Head(rest),
                    Tail(rest))
\* mutant: the first step node stored is taken for the last
lastNode_First(ns) == SelectSeq(ns, NotStart)[1]

lastNode(ns) == reduceLast(SelectSeq(ns, NotStart)[1], SelectSeq(ns, NotStart))

W_Duplicate == [kind |-> "Duplicate Sequence # Detected", step |-> 0]
W_StartConnection == [kind |-> "Invalid Start Connection (Single path only)", step |-> 0]
W_EndConcat == [kind |-> "Flow must end with CONCAT", step |-> 0]
W_IterationQuery == [kind |-> "Iteration Query Empty", step |-> 0]
W_EmptySql(o) == [kind |-> "SQL Query is empty", step |-> o]
W_TimeConfig(o) == [kind |-> "Incomplete Time Configuration", step |-> o]

globalWarnings(ns, es, itf, query) ==
    (IF hasDuplicates(ns) THEN <<W_Duplicate>> ELSE <<>>)
    \o (IF ~itf /\ startEdgesCount(es) > 1 THEN <<W_StartConnection>> ELSE <<>>)
    \o (IF SelectSeq(ns, NotStart) # <<>> /\ lastNode(ns).type # Some(StepType_CONCAT)
        THEN <<W_EndConcat>> ELSE <<>>)
    \o (IF itf /\ Trim(query) = <<>> THEN <<W_IterationQuery>> ELSE <<>>)

W_IterationRequires(o) == [kind |-> "{{iteration_value}} requires Iterated Flow", step |-> o]
W_IterationNotConnected(o) ==
    [kind |-> "{{iteration_value}} used but not connected to Start", step |-> o]
\* `Step ${o}: {{${tag}}} used but Step ${stepNum} is not connected`
W_StepNotConnected(o, tag, stepNum) ==
    [kind |-> "used but Step is not connected", step |-> o, tag |-> tag, ref |-> stepNum]

Str_iteration_value ==
    <<"i", "t", "e", "r", "a", "t", "i", "o", "n", "_", "v", "a", "l", "u", "e">>
Str_step_ == <<"s", "t", "e", "p", "_">>

\* the places of s where the two-character string cc begins
Occurrences(s, c, from) == {i \in from..(Len(s) - 1) : s[i] = c /\ s[i + 1] = c}
Least(S) == CHOOSE i \in S : \A j \in S : i <= j

\* [...value.matchAll(/\{\{(.*?)\}\}/g)].map(m => m[1]): the leftmost "{{",
\* the nearest "}}" after it, the text between them, and on behind that "}}"
\* (the strings of the model hold no line terminator)
RECURSIVE matchAll(_)
matchAll(s) ==
    IF Occurrences(s, "{", 1) = {} THEN <<>>
    ELSE LET i == Least(Occurrences(s, "{", 1))
         IN IF Occurrences(s, "}", i + 2) = {} THEN <<>>
            ELSE LET j == Least(Occurrences(s, "}", i + 2))
                 IN <<SubSeq(s, i + 2, j - 1)>> \o matchAll(SubSeq(s, j + 2, Len(s)))

\* [...new Set(matches)]: the first occurrence of every tag, in order
uniqueTags(matches) ==
    LET First(k) == \A j \in 1..(k - 1) : matches[j] # matches[k]
        idx == {k \in 1..Len(matches) : First(k)}
        RECURSIVE Pick(_)
        Pick(k) == IF k > Len(matches) THEN <<>>
                   ELSE (IF k \in idx THEN <<matches[k]>> ELSE <<>>) \o Pick(k + 1)
    IN Pick(1)

startsWith(s, p) == Len(s) >= Len(p) /\ SubSeq(s, 1, Len(p)) = p

\* mutant: every node with a path into node counts as a predecessor
predecessors_Reaching(ns, es, node) ==
    LET RECURSIVE Grow(_, _)
        Grow(S, k) == IF k = 0 THEN S
                      ELSE Grow(S \cup {e.source : e \in {x \in BagToSet(es) : x.target \in S}},
                                k - 1)
        ancestors == {e.source : e \in {x \in BagToSet(es) :
                                           x.target \in Grow({node.id}, Len(ns))}}
        IsSource(n) == n.id \in ancestors
    IN SelectSeq(ns, IsSource)

\* the nodes (the start node too) that are the source of an edge into node
predecessors(ns, es, node) ==
    LET sourceIds == {e.source : e \in {x \in BagToSet(es) : x.target = node.id}}
        IsSource(n) == n.id \in sourceIds
    IN SelectSeq(ns, IsSource)
\* mutant: any incoming edge counts as a connection to the start node
isConnectedToStart_AnyEdge(es, node) == \E e \in BagToSet(es) : e.target = node.id

isConnectedToStart(es, node) == BagIn(Edge(StartId, node.id), es)

\* the body of uniqueTags.forEach for one tag
tagWarnings(ns, es, itf, node, tag) ==
    IF tag = Str_iteration_value
    THEN IF ~itf THEN <<W_IterationRequires(node.sequence_order)>>
         ELSE IF ~isConnectedToStart(es, node)
              THEN <<W_IterationNotConnected(node.sequence_order)>>
              ELSE <<>>
    ELSE IF startsWith(tag, Str_step_)
         THEN LET stepNum == parseInt(SubSeq(tag, Len(Str_step_) + 1, Len(tag)))
                  preds == predecessors(ns, es, node)
              IN IF IsSome(stepNum)
                    /\ ~\E k \in 1..Len(preds) : preds[k].sequence_order = Get(stepNum)
                 THEN <<W_StepNotConnected(node.sequence_order, tag, Get(stepNum))>>
                 ELSE <<>>
         ELSE <<>>

RECURSIVE placeholderWarnings(_, _, _, _, _)
placeholderWarnings(ns, es, itf, node, tags) ==
    IF tags = <<>> THEN <<>>
    ELSE tagWarnings(ns, es, itf, node, Head(tags))
         \o placeholderWarnings(ns, es, itf, node, Tail(tags))

\* mutant: the time configuration is reported only for a missing grain
nodeWarnings_GrainOnly(ns, es, itf, node) ==
    IF node.isStartNode THEN <<>>
    ELSE (IF node.type = Some(StepType_SQL) /\ Trim(node.value) = <<>>
          THEN <<W_EmptySql(node.sequence_order)>> ELSE <<>>)
         \o (IF /\ node.type = Some(StepType_SQL)
                /\ Truthy(node.append_time_column)
                /\ ~Truthy(node.time_grain)
             THEN <<W_TimeConfig(node.sequence_order)>> ELSE <<>>)
         \o placeholderWarnings(ns, es, itf, node, uniqueTags(matchAll(node.value)))

nodeWarnings(ns, es, itf, node) ==
    IF node.isStartNode THEN <<>>
    ELSE (IF node.type = Some(StepType_SQL) /\ Trim(node.value) = <<>>
          THEN <<W_EmptySql(node.sequence_order)>> ELSE <<>>)
         \o (IF /\ node.type = Some(StepType_SQL)
                /\ Truthy(node.append_time_column)
                /\ (node.time_amount = 0 \/ ~Truthy(node.time_grain) \/ ~TruthyAtom(node.time_mode))
             THEN <<W_TimeConfig(node.sequence_order)>> ELSE <<>>)
         \o placeholderWarnings(ns, es, itf, node, uniqueTags(matchAll(node.value)))

RECURSIVE perNodeWarnings(_, _, _, _)
perNodeWarnings(ns, es, itf, rest) ==
    IF rest = <<>> THEN <<>>
    ELSE nodeWarnings(ns, es, itf, Head(rest)) \o perNodeWarnings(ns, es, itf, Tail(rest))

\* mutant: the per-node diagnostics come before the global ones
flowWarnings_NodesFirst(ns, es, itf, query) ==
    perNodeWarnings(ns, es, itf, ns) \o globalWarnings(ns, es, itf, query)

flowWarnings(ns, es, itf, query) ==
    globalWarnings(ns, es, itf, query) \o perNodeWarnings(ns, es, itf, ns)

isValidFlow(ns, es, itf, query) == Len(flowWarnings(ns, es, itf, query)) = 0


(***************************************************************************)
(* The editor: App                                                         *)
(***************************************************************************)
NodeIds(ns) == {ns[i].id : i \in 1..Len(ns)}
StepIds(ns) == NodeIds(ns) \ {StartId}
StepCount(ns) == Len(SelectSeq(ns, NotStart))
Max(a, b) == IF a > b THEN a ELSE b

\* mutant: the number of step nodes is taken for the largest order
maxOrder_StepCount(ns) == Len(SelectSeq(ns, NotStart))

\* nodes.reduce((max, n) => Math.max(max, n.data.sequence_order), 0)
RECURSIVE maxOrder(_)
maxOrder(ns) == IF ns = <<>> THEN 0
                ELSE Max(maxOrder(SubSeq(ns, 1, Len(ns) - 1)), ns[Len(ns)].sequence_order)

\* type.toUpperCase()
toUpperCase(t) == CASE t = StepType_SQL -> <<"S", "Q", "L">>
                    [] t = StepType_LLM -> <<"L", "L", "M">>
                    [] OTHER -> <<"C", "O", "N", "C", "A", "T">>

\* an id no node of the array carries (node-<length+1>-<Date.now()>)
freshId(ns) == CHOOSE i \in 1..(Len(ns) + 1) : i \notin NodeIds(ns)

newNode(ns, type) ==
    [id |-> freshId(ns),
     label |-> <<"N", "e", "w", " ">> \o toUpperCase(type) \o <<" ", "S", "t", "e", "p">>,
     sequence_order |-> maxOrder(ns) + 1,
     type |-> Some(type), value |-> <<>>,
     append_iteration_column |-> None, append_time_column |-> None,
     time_amount |-> 0, time_grain |-> None, time_mode |-> None,
     reference_date |-> None, llm_model |-> None, max_retry |-> 0,
     isStartNode |-> FALSE]

addNode(type) ==
    /\ StepCount(nodes) < MaxSteps
    /\ maxOrder(nodes) < MaxOrder
    /\ nodes' = Append(nodes, newNode(nodes, type))
    /\ UNCHANGED <<edges, flowName, iterateFlow, getIterateList, reads, generatedResult>>

\* eds.filter(keep), every copy of a kept edge staying
filterEdges(es, Keep(_)) == [e \in {x \in BagToSet(es) : Keep(x)} |-> es[e]]

\* mutant: only the outgoing edges of the removed node are dropped
deleteSelected_KeepIncoming(selectedNodeId, selectedEdgeId) ==
    /\ IF IsSome(selectedNodeId) /\ Get(selectedNodeId) # StartId
       THEN /\ nodes' = [i \in 1..(Len(nodes) - 1) |->
                            IF \A j \in 1..i : nodes[j].id # Get(selectedNodeId)
                            THEN nodes[i] ELSE nodes[i + 1]]
            /\ edges' = [e \in {x \in BagToSet(edges) : x.source # Get(selectedNodeId)} |->
                            edges[e]]
       ELSE IF IsSome(selectedEdgeId)
            THEN /\ edges' = [e \in BagToSet(edges) \ {Get(selectedEdgeId)} |-> edges[e]]
                 /\ UNCHANGED nodes
            ELSE UNCHANGED <<nodes, edges>>
    /\ UNCHANGED <<flowName, iterateFlow, getIterateList, reads, generatedResult>>

\* mutant: the start node can be removed like any other
deleteSelected_AnyNode(selectedNodeId, selectedEdgeId) ==
    /\ IF IsSome(selectedNodeId)
       THEN /\ nodes' = [i \in 1..(Len(nodes) - 1) |->
                            IF \A j \in 1..i : nodes[j].id # Get(selectedNodeId)
                            THEN nodes[i] ELSE nodes[i + 1]]
            /\ edges' = [e \in {x \in BagToSet(edges) :
                                   /\ x.source # Get(selectedNodeId)
                                   /\ x.target # Get(selectedNodeId)} |-> edges[e]]
       ELSE IF IsSome(selectedEdgeId)
            THEN /\ edges' = [e \in BagToSet(edges) \ {Get(selectedEdgeId)} |-> edges[e]]
                 /\ UNCHANGED nodes
            ELSE UNCHANGED <<nodes, edges>>
    /\ UNCHANGED <<flowName, iterateFlow, getIterateList, reads, generatedResult>>

\* deleteSelected, with the selection the click handlers leave: a node and no
\* edge (onNodeClick), an edge and no node (onEdgeClick), or nothing (onPaneClick).
\* The selected edge is named by its (source, target): all edges between the
\* same two nodes carry the same id.
deleteSelected(selectedNodeId, selectedEdgeId) ==
    /\ IF IsSome(selectedNodeId) /\ Get(selectedNodeId) # StartId
       THEN LET Stays(n) == n.id # Get(selectedNodeId)
                Apart(e) == e.source # Get(selectedNodeId) /\ e.target # Get(selectedNodeId)
            IN /\ nodes' = SelectSeq(nodes, Stays)
               /\ edges' = filterEdges(edges, Apart)
       ELSE IF IsSome(selectedEdgeId)
            THEN LET Other(e) == e # Get(selectedEdgeId)
                 IN /\ edges' = filterEdges(edges, Other)
                    /\ UNCHANGED nodes
            ELSE UNCHANGED <<nodes, edges>>
    /\ UNCHANGED <<flowName, iterateFlow, getIterateList, reads, generatedResult>>

\* { ...node.data, ...newData }
mergeData(node, newData) ==
    [k \in DOMAIN node |-> IF k \in DOMAIN newData THEN newData[k] ELSE node[k]]

updateNodeData(id, newData) ==
    /\ LET Upd(n) == IF n.id = id THEN mergeData(n, newData) ELSE n
       IN nodes' = Map(nodes, Upd)
    /\ UNCHANGED <<edges, flowName, iterateFlow, getIterateList, reads, generatedResult>>

handleGlobalUpdate(key, value) ==
    /\ flowName' = IF key = "flowName" THEN value ELSE flowName
    /\ iterateFlow' = IF key = "iterateFlow" THEN value ELSE iterateFlow
    /\ getIterateList' = IF key = "getIterateList" THEN value ELSE getIterateList
    /\ UNCHANGED <<nodes, edges, reads, generatedResult>>

\* mutant: the start node is held to one edge even when the flow iterates
validateConnections_IgnoreIterate(source, target, currentEdges, itf) ==
    ~(source = StartId /\ startEdgesCount(currentEdges) > 0)

\* mutant: every connection is accepted
validateConnections_AcceptAll(source, target, currentEdges, itf) == TRUE

validateConnections(source, target, currentEdges, itf) ==
    ~(source = StartId /\ ~itf /\ startEdgesCount(currentEdges) > 0)

\* reactflow's addEdge: a connection that already exists is not added again
addEdge(e, eds) == IF BagIn(e, eds) THEN eds ELSE eds (+) SetToBag({e})

\* the updater onConnect hands to setEdges
connectEdges(source, target, eds, itf) ==
    IF validateConnections(source, target, eds, itf)
    THEN addEdge(Edge(source, target), eds) ELSE eds

onConnect(source, target) ==
    /\ edges' = connectEdges(source, target, edges, iterateFlow)
    /\ UNCHANGED <<nodes, flowName, iterateFlow, getIterateList, reads, generatedResult>>

\* mutant: the export is held back while the flow has warnings
exportEnabled_WhenValid(ns, es, itf, query) == isValidFlow(ns, es, itf, query)

\* the Export JSON button carries no disabled attribute
exportEnabled(ns, es, itf, query) == TRUE

handleExport ==
    /\ exportEnabled(nodes, edges, iterateFlow, getIterateList)
    /\ generatedResult' =
           Some(generateFlowJson(nodes, edges, flowName, iterateFlow, getIterateList))
    /\ UNCHANGED <<nodes, edges, flowName, iterateFlow, getIterateList, reads>>

\* handleFileChange: a FileReader is started on the chosen file
handleFileChange ==
    /\ reads < MaxReads
    /\ reads' = reads + 1
    /\ UNCHANGED <<nodes, edges, flowName, iterateFlow, getIterateList, generatedResult>>

\* what the text of a file is to JSON.parse and to restoreFlowFromJson
File_Invalid == [kind |-> "invalid", json |-> None]   \* JSON.parse throws
File_Null == [kind |-> "null", json |-> None]         \* null: json.steps throws
File_Object(json) == [kind |-> "object", json |-> Some(json)]
\* a number, a string, a boolean or an array: every property the restore reads
\* (steps, iterate_flow, flow_name, ...) is undefined
File_Scalar ==
    [kind |-> "scalar",
     json |-> Some([flow_name |-> None, iterate_flow |-> FALSE, steps |-> None,
                    iterable_steps |-> None, get_iterate_list |-> None])]

\* JSON.parse and restoreFlowFromJson both return: nothing is thrown inside the try
importCompletes(file) ==
    file.kind \in {"object", "scalar"} /\ ~restoreThrows(Get(file.json))

\* mutant: a completed import leaves the flow name as it was
onload_KeepFlowName(file) ==
    /\ reads > 0
    /\ reads' = reads - 1
    /\ IF importCompletes(file)
       THEN LET restored == restoreFlowFromJson(Get(file.json))
            IN /\ nodes' = restored.nodes
               /\ edges' = restored.edges
               /\ iterateFlow' = restored.iterateFlow
               /\ getIterateList' = restored.getIterateList
               /\ UNCHANGED flowName
       ELSE UNCHANGED <<nodes, edges, flowName, iterateFlow, getIterateList>>
    /\ UNCHANGED generatedResult

\* mutant: a failed import clears the canvas
onload_ClearOnFailure(file) ==
    /\ reads > 0
    /\ reads' = reads - 1
    /\ IF importCompletes(file)
       THEN LET restored == restoreFlowFromJson(Get(file.json))
            IN /\ nodes' = restored.nodes
               /\ edges' = restored.edges
               /\ flowName' = restored.flowName
               /\ iterateFlow' = restored.iterateFlow
               /\ getIterateList' = restored.getIterateList
       ELSE /\ nodes' = <<StartNode>>
            /\ edges' = EmptyBag
            /\ UNCHANGED <<flowName, iterateFlow, getIterateList>>
    /\ UNCHANGED generatedResult

\* reader.onload: the text of the file is parsed and restored inside try/catch;
\* the five setters run in one batch once both have returned
onload(file) ==
    /\ reads > 0
    /\ reads' = reads - 1
    /\ IF importCompletes(file)
       THEN LET restored == restoreFlowFromJson(Get(file.json))
            IN /\ nodes' = restored.nodes
               /\ edges' = restored.edges
               /\ flowName' = restored.flowName
               /\ iterateFlow' = restored.iterateFlow
               /\ getIterateList' = restored.getIterateList
       ELSE UNCHANGED <<nodes, edges, flowName, iterateFlow, getIterateList>>
    /\ UNCHANGED generatedResult


(***************************************************************************)
(* Inputs                                                                  *)
(***************************************************************************)
\* the partial records the sidebar hands to updateNodeData in the editor
NodeUpdates == {[sequence_order |-> v] : v \in 0..MaxOrder}

GlobalUpdates ==
    {<<"iterateFlow", b>> : b \in BOOLEAN}
    \cup {<<"getIterateList", <<>>>>, <<"flowName", INITIAL_FLOW_NAME>>}

\* the selections deleteSelected can find
Selections ==
    {<<Some(id), None>> : id \in NodeIds(nodes)}
    \cup {<<None, Some(e)>> : e \in BagToSet(edges)}
    \cup {<<None, None>>}

\* step records of imported documents
StepRecord(order, type, name, dep) ==
    [sequence_order |-> order, sequence_name |-> name, type |-> type,
     value |-> None, depends_on |-> dep, max_retry |-> 0,
     append_iteration_column |-> None, append_time_column |-> None,
     time_range |-> None, time_grain |-> None, time_mode |-> None,
     reference_date |-> None, llm_model |-> None]

Document(itf, isteps, steps) ==
    [flow_name |-> None, iterate_flow |-> itf, steps |-> Some(steps),
     iterable_steps |-> isteps, get_iterate_list |-> None]

\* the documents the editor is given to import: a chain with an explicit
\* dependency, an iterated flow, and two steps sharing sequence_order 1
ImportDocs ==
    {Document(FALSE, None,
              <<StepRecord(1, Some(StepType_SQL), Some(newNode(<<>>, StepType_SQL).label), DepAbsent),
                StepRecord(2, Some(StepType_CONCAT), Some(newNode(<<>>, StepType_CONCAT).label), DepString(<<"1">>))>>),
     Document(TRUE, Some(<<1, 2>>),
              <<StepRecord(1, Some(StepType_SQL), Some(newNode(<<>>, StepType_SQL).label), DepAbsent),
                StepRecord(2, Some(StepType_CONCAT), Some(newNode(<<>>, StepType_CONCAT).label), DepString(<<"1">>))>>),
     Document(FALSE, None,
              <<StepRecord(1, Some(StepType_SQL), Some(newNode(<<>>, StepType_SQL).label), DepAbsent),
                StepRecord(1, Some(StepType_CONCAT), Some(newNode(<<>>, StepType_CONCAT).label), DepAbsent)>>)}

\* object-shaped documents with a field of a type the reconstruction does not
\* expect: a null step entry, a numeric time_range, a numeric iterable_steps
MalformedDocs ==
    {Document(FALSE, None, <<NullStep>>),
     Document(FALSE, None,
              <<StepRecord(1, Some(StepType_SQL), None, DepAbsent) @@ [time_range_number |-> 7]>>),
     Document(TRUE, None, <<StepRecord(1, Some(StepType_CONCAT), None, DepAbsent)>>)
         @@ [iterable_steps_number |-> 1]}

Files ==
    {File_Invalid, File_Null, File_Scalar}
    \cup {File_Object(d) : d \in ImportDocs \cup MalformedDocs}

(***************************************************************************)
(* Specification of the editor                                             *)
(***************************************************************************)
Init ==
    /\ nodes = <<StartNode>>
    /\ edges = EmptyBag
    /\ flowName = INITIAL_FLOW_NAME
    /\ iterateFlow = FALSE
    /\ getIterateList = <<>>
    /\ reads = 0
    /\ generatedResult = None

Next ==
    \/ \E type \in StepTypes : addNode(type)
    \/ \E sel \in Selections : deleteSelected(sel[1], sel[2])
    \/ \E id \in StepIds(nodes), newData \in NodeUpdates : updateNodeData(id, newData)
    \/ \E u \in GlobalUpdates : handleGlobalUpdate(u[1], u[2])
    \/ \E source \in NodeIds(nodes), target \in StepIds(nodes) : onConnect(source, target)
    \/ handleFileChange
    \/ \E file \in Files : onload(file)

Spec == Init /\ [][Next]_vars


(***************************************************************************)
(* Specification of the round trip: graphs drawn from a bounded set are    *)
(* exported, the exported document is imported, and so on                  *)
(***************************************************************************)
PlainStep ==
    [id |-> 1, label |-> <<"A">>, sequence_order |-> 1, type |-> Some(StepType_CONCAT),
     value |-> <<"x">>, append_iteration_column |-> None, append_time_column |-> None,
     time_amount |-> 0, time_grain |-> None, time_mode |-> None,
     reference_date |-> None, llm_model |-> None, max_retry |-> 0,
     isStartNode |-> FALSE]

\* what the first step of a drawn graph may look like
RtShapes ==
    {[type |-> Some(StepType_CONCAT)],
     [label |-> <<>>, type |-> Some(StepType_LLM), llm_model |-> Some(<<"m">>)],
     [type |-> Some(StepType_SQL), append_time_column |-> Some(<<"c">>), time_amount |-> 7,
      time_grain |-> Some(Str_day), time_mode |-> Some("closed_open")],
     [type |-> Some(StepType_SQL), append_time_column |-> Some(<<"c">>),
      time_grain |-> Some(Str_month)],
     [type |-> None, append_time_column |-> Some(<<"c">>), time_amount |-> 7,
      time_grain |-> Some(Str_day)],
     [type |-> Some(StepType_SQL), max_retry |-> 2, append_iteration_column |-> Some(<<"i">>),
      reference_date |-> Some(<<"2", "0", "2", "4", "-", "0", "1">>)],
     [type |-> Some(StepType_SQL), append_time_column |-> Some(<<"c">>), time_amount |-> 12,
      time_grain |-> Some(Str_month)],
     [type |-> Some(StepType_SQL), time_amount |-> 12, time_grain |-> Some(Str_month)]}

RtNode(i, order, shape) ==
    mergeData([PlainStep EXCEPT !.id = i, !.sequence_order = order],
              IF i = 1 THEN shape ELSE [type |-> Some(StepType_CONCAT)])

RtPairs(k) == {Edge(src, tgt) : src \in 0..k, tgt \in 1..k}
RtEdgeSets(k) == {E \in SUBSET RtPairs(k) : Cardinality(E) <= RtEdges}
RtConfigs == {<<(<<"F">>), FALSE>>, <<(<<"F">>), TRUE>>, <<(<<>>), FALSE>>}

InitRT ==
    /\ \E k \in 0..RtSteps :
         /\ \E orders \in [1..k -> 1..RtSteps], shape \in RtShapes :
              nodes = <<StartNode>> \o [i \in 1..k |-> RtNode(i, orders[i], shape)]
         /\ \E E \in RtEdgeSets(k) : edges = SetToBag(E)
    /\ \E c \in RtConfigs : flowName = c[1] /\ iterateFlow = c[2]
    /\ getIterateList = <<" ", "Q">>
    /\ reads = 0
    /\ generatedResult = None

\* the file chosen for import is the document last exported
onloadExported ==
    /\ IsSome(generatedResult)
    /\ onload(File_Object(Get(generatedResult)))

NextRT ==
    \/ handleExport
    \/ handleFileChange
    \/ onloadExported

SpecRT == InitRT /\ [][NextRT]_vars


(***************************************************************************)
(* Specification of validation and export: graphs drawn from a bounded set *)
(* are validated (flowWarnings is derived from the state) and exported     *)
(***************************************************************************)
Tag(t) == <<"{", "{">> \o t \o <<"}", "}">>
Str_step(n) == Str_step_ \o IntToStr(n)

\* what a step of a drawn graph may look like: type, value (the text with its
\* {{tags}}) and time configuration
VShapes ==
    {[type |-> Some(StepType_SQL), value |-> <<" ">>, append_time_column |-> Some(<<"c">>)],
     [type |-> Some(StepType_SQL), value |-> Tag(Str_step(1))],
     [type |-> Some(StepType_SQL), value |-> <<"q">> \o Tag(Str_step(0)),
      append_time_column |-> Some(<<"c">>), time_grain |-> Some(Str_day)],
     [type |-> Some(StepType_LLM), value |-> Tag(Str_iteration_value)],
     [type |-> Some(StepType_CONCAT),
      value |-> Tag(Str_step(2)) \o <<" ">> \o Tag(Str_iteration_value) \o Tag(Str_step(2))],
     [type |-> Some(StepType_CONCAT), value |-> <<"x">>]}

\* the sequence_orders of the stored step nodes: ascending, or shared and out
\* of stored order
VOrders == {<<1, 2, 3, 4>>, <<2, 1, 1, 3>>}

VNode(i, order, shape) ==
    mergeData([PlainStep EXCEPT !.id = i, !.sequence_order = order], shape)
VEdgeSets(k) == {E \in SUBSET RtPairs(k) : Cardinality(E) <= VEdges}

InitV ==
    /\ \E k \in 1..VSteps :
         /\ \E orders \in VOrders, shapes \in [1..k -> VShapes] :
              nodes = <<StartNode>> \o [i \in 1..k |-> VNode(i, orders[i], shapes[i])]
         /\ \E E \in VEdgeSets(k) : edges = SetToBag(E)
    /\ flowName = INITIAL_FLOW_NAME
    /\ iterateFlow \in BOOLEAN
    /\ getIterateList \in {<<>>, <<"Q">>}
    /\ reads = 0
    /\ generatedResult = None

NextV == handleExport

SpecV == InitV /\ [][NextV]_vars


(***************************************************************************)
(* Specification of the import: documents drawn from a bounded set are     *)
(* read and reconstructed                                                  *)
(***************************************************************************)
ImSteps == 2         \* step records of a drawn document

\* `last_${amount}_${grain}` as a document may carry it
TimeRangeText(amount, grain) == Str_last \o <<"_">> \o amount \o <<"_">> \o grain

\* the time_range of a drawn step record: none, well formed (plural and
\* singular), an unknown grain, an amount that is no number, two parts only
ImTimeRanges ==
    {None,
     Some(TimeRangeText(<<"7">>, Str_day \o <<"s">>)),
     Some(TimeRangeText(<<"1", "2">>, Str_month \o <<"s">>)),
     Some(TimeRangeText(<<"7">>, Str_day)),
     Some(TimeRangeText(<<"7">>, <<"w", "e", "e", "k", "s">>)),
     Some(TimeRangeText(<<"x">>, Str_day \o <<"s">>)),
     Some(Str_last \o <<"_">> \o <<"7">>)}

ImStep(order, tr) ==
    [StepRecord(order, Some(StepType_SQL), None, DepAbsent) EXCEPT
        !.append_time_column = Some(<<"c">>), !.time_range = tr]

ImDocs ==
    {Document(itf, None, [i \in 1..Len(trs) |-> ImStep(i, trs[i])]) :
        itf \in BOOLEAN,
        trs \in UNION {[1..k -> ImTimeRanges] : k \in 1..ImSteps}}

NextIM ==
    \/ handleFileChange
    \/ \E d \in ImDocs : onload(File_Object(d))

SpecIM == Init /\ [][NextIM]_vars


(***************************************************************************)
(* Properties of the round trip                                            *)
(***************************************************************************)
compileOf(g) == generateFlowJson(g.nodes, g.edges, g.flowName, g.iterateFlow, g.getIterateList)
store == [nodes |-> nodes, edges |-> edges, flowName |-> flowName,
          iterateFlow |-> iterateFlow, getIterateList |-> getIterateList]
roundTrip(doc) == compileOf(restoreFlowFromJson(doc))

\* the store is what an import of the document last exported leaves
Imported == IsSome(generatedResult) /\ store = restoreFlowFromJson(Get(generatedResult))

StepsOf(ns) == SelectSeq(ns, NotStart)
\* the step nodes with an edge into node n
StepPreds(ns, es, n) ==
    {i \in 1..Len(ns) : ~ns[i].isStartNode /\ BagIn(Edge(ns[i].id, n.id), es)}
DistinctStepOrders(ns) ==
    \A i, j \in 1..Len(ns) :
        (i # j /\ ~ns[i].isStartNode /\ ~ns[j].isStartNode)
            => ns[i].sequence_order # ns[j].sequence_order

\* C1 (as claimed): compiling the reconstruction of a compiled document gives
\* that document back, for every graph and configuration
C1_SecondCompileEqualsFirst == roundTrip(compileOf(store)) = compileOf(store)

\* the graphs whose compiled document loses nothing the reconstruction infers
\* or defaults: orders distinct, names non-empty, and every step without a
\* step predecessor is one the positional fallback leaves alone
NoInferredEdge(ns, es, itf) ==
    \A i \in 1..Len(ns) :
        (~ns[i].isStartNode /\ StepPreds(ns, es, ns[i]) = {}) =>
            IF ns[i].sequence_order = 1
            THEN itf => BagIn(Edge(StartId, ns[i].id), es)
            ELSE \A j \in 1..Len(ns) :
                    ~ns[j].isStartNode => ns[j].sequence_order # ns[i].sequence_order - 1
ExplicitGraph ==
    /\ DistinctStepOrders(nodes)
    /\ flowName # <<>>
    /\ \A i \in 1..Len(nodes) : nodes[i].label # <<>>
    /\ NoInferredEdge(nodes, edges, iterateFlow)

\* C1 (amended): for a graph with distinct step orders, non-empty names and no
\* step the positional fallback would connect, the second compile equals the first
C1_SecondCompileEqualsFirstWhenExplicit ==
    ExplicitGraph => roundTrip(compileOf(store)) = compileOf(store)

C1_Witness ==
    /\ Imported /\ ExplicitGraph
    /\ StepCount(nodes) = 3
    /\ \E i \in 1..Len(nodes) : Cardinality(StepPreds(nodes, edges, nodes[i])) = 2
    /\ iterateFlow /\ startEdgesCount(edges) > 0

\* C2 (as claimed): the document of a graph that went through one compile and
\* reconstruct is a fixed point of reconstruct-then-compile, duplicate
\* sequence_orders allowed
C2_FixedPointAfterOnePass ==
    LET D2 == roundTrip(compileOf(store)) IN roundTrip(D2) = D2

\* C2 (amended): the same, for graphs whose step sequence_orders are pairwise
\* distinct
C2_FixedPointAfterOnePassDistinct ==
    DistinctStepOrders(nodes) =>
        LET D2 == roundTrip(compileOf(store)) IN roundTrip(D2) = D2

\* an imported graph whose document differs from the one it was imported from
C2_Witness ==
    /\ Imported
    /\ DistinctStepOrders(nodes)
    /\ StepCount(nodes) = 3
    /\ compileOf(store) # Get(generatedResult)
    /\ roundTrip(compileOf(store)) = compileOf(store)

\* the ascending sequence of the members of a finite set of integers
RECURSIVE Ascending(_)
Ascending(S) ==
    IF S = {} THEN <<>>
    ELSE LET m == CHOOSE x \in S : \A y \in S : x <= y
         IN <<m>> \o Ascending(S \ {m})

\* C8: depends_on of every step record is the ascending, duplicate-free,
\* comma-joined list of the sequence_orders of the node's direct step
\* predecessors, and is absent when there is none
C8_DependsOnSortedDeduplicated ==
    LET doc == compileOf(store)
        sorted == sortedSteps(nodes)
    IN \A k \in 1..Len(sorted) :
          LET predOrders == {nodes[i].sequence_order :
                                i \in StepPreds(nodes, edges, sorted[k])}
          IN Get(doc.steps)[k].depends_on =
                 IF predOrders = {} THEN DepAbsent
                 ELSE DepString(JoinInts(Ascending(predOrders)))


(***************************************************************************)
(* Properties of the editor                                                *)
(***************************************************************************)
Warnings == flowWarnings(nodes, edges, iterateFlow, getIterateList)
Count(xs, x) == Cardinality({k \in 1..Len(xs) : xs[k] = x})
StartOut(es) == {e \in BagToSet(es) : e.source = StartId}

\* C3: a Connect is rejected exactly when its source is the start node,
\* iterateFlow is false and the start node already has an outgoing edge; a
\* rejected Connect changes nothing, any other Connect (self-loops and cycles
\* included) leaves the edge source -> target in the edge set; no Connect
\* touches the node set or the global settings
C3_ConnectRejectedOnlyForSecondStartEdge ==
    /\ [](\A source \in NodeIds(nodes), target \in StepIds(nodes) :
             IF source = StartId /\ ~iterateFlow /\ StartOut(edges) # {}
             THEN connectEdges(source, target, edges, iterateFlow) = edges
             ELSE BagIn(Edge(source, target),
                        connectEdges(source, target, edges, iterateFlow)))
    /\ [][\A source \in NodeIds(nodes), target \in StepIds(nodes) :
             onConnect(source, target) =>
                 /\ edges' = connectEdges(source, target, edges, iterateFlow)
                 /\ UNCHANGED <<nodes, flowName, iterateFlow, getIterateList>>]_vars

\* a second start edge would be rejected here, and a self-loop was accepted
C3_Witness ==
    /\ ~iterateFlow
    /\ Cardinality(StartOut(edges)) = 1
    /\ StepCount(nodes) = 2
    /\ \E id \in StepIds(nodes) : BagIn(Edge(id, id), edges)

SinglePath(es, itf) == ~itf => startEdgesCount(es) <= 1

\* C4 (as claimed): whenever iterateFlow is false the start node has at most
\* one outgoing edge
C4_SinglePathFromStart == SinglePath(edges, iterateFlow)

\* C4 (amended): a state with iterateFlow false and several start edges is
\* entered only by switching iterateFlow off or by the completion of an import
C4_SinglePathBrokenOnlyByToggleOrImport ==
    [][(SinglePath(edges, iterateFlow) /\ ~SinglePath(edges', iterateFlow'))
          => \/ iterateFlow /\ ~iterateFlow' /\ edges' = edges
             \/ reads' < reads]_vars

\* edited by hand only: one start edge, a second step it may not be connected to
C4_Witness ==
    /\ ~iterateFlow
    /\ startEdgesCount(edges) = 1
    /\ StepCount(nodes) = 2
    /\ flowName = INITIAL_FLOW_NAME
    /\ \E id \in StepIds(nodes) : ~BagIn(Edge(StartId, id), edges)

\* C5: both endpoints of every edge are nodes of the graph, and removing a
\* step node removes exactly the edges that touch it
C5_EdgesReferenceNodes ==
    /\ [](\A e \in BagToSet(edges) : e.source \in NodeIds(nodes) /\ e.target \in NodeIds(nodes))
    /\ [][\A id \in StepIds(nodes) :
             deleteSelected(Some(id), None) =>
                 /\ id \notin NodeIds(nodes')
                 /\ \A e \in BagToSet(edges) \cup BagToSet(edges') :
                        CopiesIn(e, edges') =
                            IF e.source = id \/ e.target = id THEN 0 ELSE CopiesIn(e, edges)]_vars

\* step 1 was removed, and edges that did not touch it are still there
C5_Witness ==
    /\ StepIds(nodes) = {2}
    /\ BagIn(Edge(StartId, 2), edges)
    /\ BagIn(Edge(2, 2), edges)

\* C6: the graph always holds exactly one start node, of sequence_order 0;
\* removing the start node changes neither the nodes nor the edges
C6_ExactlyOneStartNode ==
    /\ [](/\ Cardinality({i \in 1..Len(nodes) : nodes[i].isStartNode}) = 1
          /\ \A i \in 1..Len(nodes) :
                nodes[i].isStartNode => nodes[i].sequence_order = 0 /\ nodes[i].id = StartId)
    /\ [][deleteSelected(Some(StartId), None) => UNCHANGED <<nodes, edges>>]_vars

\* the graph of an imported document
C6_Witness ==
    /\ flowName = Str_Imported
    /\ StepCount(nodes) = 2
    /\ Cardinality({i \in 1..Len(nodes) : nodes[i].isStartNode}) = 1

\* C7: the edge set holds at most one edge per ordered pair (source, target)
C7_AtMostOneEdgePerPair == \A e \in BagToSet(edges) : CopiesIn(e, edges) <= 1

\* C9 (as claimed): the duplicate-order diagnostic is there, once, exactly
\* when two step nodes share a sequence_order
C9_DuplicateIffStepsShareOrder ==
    /\ Count(Warnings, W_Duplicate) <= 1
    /\ (Count(Warnings, W_Duplicate) = 1) <=> ~DistinctStepOrders(nodes)

\* C9 (amended): the duplicate-order diagnostic is there, once, exactly when
\* two nodes share a sequence_order, the start node and its order 0 included
C9_DuplicateIffNodesShareOrder ==
    /\ Count(Warnings, W_Duplicate) <= 1
    /\ (Count(Warnings, W_Duplicate) = 1) <=>
           \E i, j \in 1..Len(nodes) : i # j /\ nodes[i].sequence_order = nodes[j].sequence_order

\* two steps share an order, and so do another step and the start node
C9_Witness ==
    /\ Count(Warnings, W_Duplicate) = 1
    /\ ~DistinctStepOrders(nodes)
    /\ \A i \in 1..Len(nodes) : nodes[i].sequence_order = 0

\* C10: the terminal-type diagnostic is absent when there is no step; when one
\* step has the largest sequence_order, it is there exactly when that step is
\* not a CONCAT; right after a CONCAT step is added it is absent
C10_TerminalTypeDiagnostic ==
    /\ [](LET steps == StepsOf(nodes)
              top == {i \in 1..Len(steps) :
                         \A j \in 1..Len(steps) :
                             steps[j].sequence_order <= steps[i].sequence_order}
          IN /\ steps = <<>> => Count(Warnings, W_EndConcat) = 0
             /\ Cardinality(top) = 1 =>
                    ((Count(Warnings, W_EndConcat) > 0) <=>
                         \E i \in top : steps[i].type # Some(StepType_CONCAT)))
    /\ [][addNode(StepType_CONCAT) =>
             Count(flowWarnings(nodes', edges', iterateFlow', getIterateList'), W_EndConcat) = 0]_vars

\* a CONCAT step of the largest order stored before a step of another type
C10_Witness ==
    /\ StepCount(nodes) = 2
    /\ nodes[2].type = Some(StepType_CONCAT) /\ nodes[2].sequence_order = 2
    /\ nodes[3].type = Some(StepType_SQL) /\ nodes[3].sequence_order = 1
    /\ Count(Warnings, W_EndConcat) = 0

(***************************************************************************)
(* Properties of validation                                                *)
(***************************************************************************)
StepNodes == SelectSeq(nodes, NotStart)
WarningsOf(n) == nodeWarnings(nodes, edges, iterateFlow, n)
HasTag(n, t) == \E k \in 1..Len(matchAll(n.value)) : matchAll(n.value)[k] = t
NodesOfOrder(N) == {k \in 1..Len(nodes) : nodes[k].sequence_order = N}
DirectFrom(k, n) == BagIn(Edge(nodes[k].id, n.id), edges)
\* a path of at most len + 1 edges from node id a to node id b
RECURSIVE Reach(_, _, _)
Reach(a, b, len) ==
    \/ BagIn(Edge(a, b), edges)
    \/ len > 0 /\ \E c \in NodeIds(nodes) : BagIn(Edge(a, c), edges) /\ Reach(c, b, len - 1)
\* a path of two or more edges from node id a to node id b
LongPath(a, b) ==
    \E c \in NodeIds(nodes) : BagIn(Edge(a, c), edges) /\ Reach(c, b, Len(nodes))
VOrderRange == 0..(VSteps + 1)

\* C11: a step whose text holds {{step_N}} has no diagnostic for that tag when
\* a non-start node of sequence_order N has an edge straight into it, and has
\* one when no node of order N has such an edge although one reaches it over
\* two or more edges
C11_StepTagNeedsDirectPredecessor ==
    \A i \in 1..Len(StepNodes), N \in VOrderRange :
        LET n == StepNodes[i]
            w == W_StepNotConnected(n.sequence_order, Str_step(N), N)
        IN HasTag(n, Str_step(N)) =>
             /\ (\E k \in NodesOfOrder(N) : ~nodes[k].isStartNode /\ DirectFrom(k, n))
                    => Count(WarningsOf(n), w) = 0
             /\ ((\A k \in NodesOfOrder(N) : ~DirectFrom(k, n))
                 /\ (\E k \in NodesOfOrder(N) : LongPath(nodes[k].id, n.id)))
                    => Count(WarningsOf(n), w) = 1

\* one step reads {{step_1}} with the step of order 1 two edges away, another
\* reads a tag of its direct predecessor
C11_Witness ==
    /\ \E i \in 1..Len(StepNodes) :
         LET n == StepNodes[i]
         IN /\ HasTag(n, Str_step(1))
            /\ \A k \in NodesOfOrder(1) : ~DirectFrom(k, n)
            /\ \E k \in NodesOfOrder(1) : LongPath(nodes[k].id, n.id)
            /\ Count(WarningsOf(n), W_StepNotConnected(n.sequence_order, Str_step(1), 1)) = 1
    /\ \E i \in 1..Len(StepNodes), N \in 1..VSteps :
         LET n == StepNodes[i]
         IN /\ HasTag(n, Str_step(N))
            /\ \E k \in NodesOfOrder(N) : ~nodes[k].isStartNode /\ DirectFrom(k, n)

\* C12: a step whose text holds {{step_0}} and whose only incoming edge comes
\* from the start node gets the diagnostic naming the step and 0
C12_StartEdgeNeverSatisfiesStepTag ==
    \A i \in 1..Len(StepNodes) :
        LET n == StepNodes[i]
        IN (/\ HasTag(n, Str_step(0))
            /\ {e.source : e \in {x \in BagToSet(edges) : x.target = n.id}} = {StartId})
               => Count(WarningsOf(n), W_StepNotConnected(n.sequence_order, Str_step(0), 0)) = 1

IterationWarnings(n) ==
    {W_IterationRequires(n.sequence_order), W_IterationNotConnected(n.sequence_order)}

\* C13: a step whose text holds {{iteration_value}} has a diagnostic for that
\* tag exactly when iterateFlow is false or no edge leads from the start node
\* straight into it
C13_IterationValueNeedsIteratedStartEdge ==
    \A i \in 1..Len(StepNodes) :
        LET n == StepNodes[i]
        IN HasTag(n, Str_iteration_value) =>
             ((\E w \in IterationWarnings(n) : Count(WarningsOf(n), w) > 0)
                <=> (~iterateFlow \/ ~BagIn(Edge(StartId, n.id), edges)))

\* an iterated flow with one reader of {{iteration_value}} on the start node
\* and one that is not
C13_Witness ==
    /\ iterateFlow
    /\ \E i, j \in 1..Len(StepNodes) :
         /\ HasTag(StepNodes[i], Str_iteration_value)
         /\ HasTag(StepNodes[j], Str_iteration_value)
         /\ BagIn(Edge(StartId, StepNodes[i].id), edges)
         /\ ~BagIn(Edge(StartId, StepNodes[j].id), edges)
         /\ WarningsOf(StepNodes[i]) = <<>>
         /\ Count(WarningsOf(StepNodes[j]),
                  W_IterationNotConnected(StepNodes[j].sequence_order)) = 1

Blank(str) == \A k \in 1..Len(str) : str[k] = " "
When(cond, w) == IF cond THEN <<w>> ELSE <<>>
\* the step that ends the flow: the last stored among those of the largest order
TerminalStep ==
    LET top == CHOOSE k \in 1..Len(StepNodes) :
                   /\ \A j \in 1..Len(StepNodes) :
                          StepNodes[j].sequence_order <= StepNodes[k].sequence_order
                   /\ \A j \in (k + 1)..Len(StepNodes) :
                          StepNodes[j].sequence_order < StepNodes[k].sequence_order
    IN StepNodes[top]
\* the global diagnostics whose rule matches, in the order duplicate order,
\* start fan-out, terminal type, empty iteration query
ExpectedGlobal ==
    When(\E i, j \in 1..Len(nodes) : i # j /\ nodes[i].sequence_order = nodes[j].sequence_order,
         W_Duplicate)
    \o When(~iterateFlow /\ startEdgesCount(edges) > 1, W_StartConnection)
    \o When(StepNodes # <<>> /\ TerminalStep.type # Some(StepType_CONCAT), W_EndConcat)
    \o When(iterateFlow /\ Blank(getIterateList), W_IterationQuery)
\* the empty SQL and time configuration diagnostics of a node whose rule matches
ExpectedFields(n) ==
    When(n.type = Some(StepType_SQL) /\ Blank(n.value), W_EmptySql(n.sequence_order))
    \o When(/\ n.type = Some(StepType_SQL)
            /\ Truthy(n.append_time_column)
            /\ (n.time_amount = 0 \/ ~Truthy(n.time_grain) \/ ~TruthyAtom(n.time_mode)),
            W_TimeConfig(n.sequence_order))
PlaceholderKinds ==
    {W_IterationRequires(0).kind, W_IterationNotConnected(0).kind,
     W_StepNotConnected(0, <<>>, 0).kind}
\* the tags of a node whose rule matches
BadTags(n) ==
    {t \in Range(matchAll(n.value)) : tagWarnings(nodes, edges, iterateFlow, n, t) # <<>>}
\* the diagnostics of one node: its field diagnostics, then one placeholder
\* diagnostic for every tag whose rule matches
NodeListOrdered(n) ==
    LET ws == WarningsOf(n)
        f == ExpectedFields(n)
        p == SubSeq(ws, Len(f) + 1, Len(ws))
    IN /\ Len(ws) >= Len(f) /\ SubSeq(ws, 1, Len(f)) = f
       /\ \A k \in 1..Len(p) : p[k].kind \in PlaceholderKinds
                                /\ p[k].step = n.sequence_order
       /\ Len(p) = Cardinality(BadTags(n))
       /\ \A t \in BadTags(n) :
              Count(p, tagWarnings(nodes, edges, iterateFlow, n, t)[1]) = 1
RECURSIVE InStoredOrder(_)
InStoredOrder(k) ==
    IF k > Len(nodes) THEN <<>>
    ELSE (IF nodes[k].isStartNode THEN <<>> ELSE WarningsOf(nodes[k])) \o InStoredOrder(k + 1)

\* C14: the list of diagnostics holds an entry for every rule that matches:
\* the global ones first, in the order duplicate order, start fan-out,
\* terminal type, empty iteration query, then those of the nodes in stored
\* order, and for one node empty SQL, incomplete time configuration,
\* placeholders
C14_AllDiagnosticsInFixedOrder ==
    /\ Warnings = ExpectedGlobal \o InStoredOrder(1)
    /\ \A i \in 1..Len(StepNodes) : NodeListOrdered(StepNodes[i])

\* all four global diagnostics, and nodes stored against their sequence_order
\* carrying two diagnostics each
C14_Witness ==
    /\ Len(ExpectedGlobal) >= 3
    /\ Len(StepNodes) = 3
    /\ StepNodes[1].sequence_order > StepNodes[2].sequence_order
    /\ \E i, j \in 1..Len(StepNodes) :
         /\ i # j
         /\ Len(ExpectedFields(StepNodes[i])) = 2
         /\ Len(ExpectedFields(StepNodes[j])) = 1 /\ Cardinality(BadTags(StepNodes[j])) = 1
    /\ \E i \in 1..Len(StepNodes) : Cardinality(BadTags(StepNodes[i])) = 2

\* C15: the export is enabled in every state, whatever the diagnostics, and
\* the exported document is the compiled graph and configuration
C15_ExportNeverBlocked ==
    /\ exportEnabled(nodes, edges, iterateFlow, getIterateList)
    /\ IsSome(generatedResult) => Get(generatedResult) = compileOf(store)

\* a graph with a duplicate order, no terminal CONCAT, an empty iteration
\* query and bad placeholders has been exported
C15_Witness ==
    /\ IsSome(generatedResult)
    /\ {W_Duplicate, W_EndConcat, W_IterationQuery} \subseteq Range(ExpectedGlobal)
    /\ \E i \in 1..Len(StepNodes) : BadTags(StepNodes[i]) # {}
    /\ \E i \in 1..Len(StepNodes) : ExpectedFields(StepNodes[i]) # <<>>
    /\ Len(Get(generatedResult).steps[1]) = Len(StepNodes)

(***************************************************************************)
(* Properties of the compiled document                                     *)
(***************************************************************************)
NonDecreasing(xs) == \A k \in 1..(Len(xs) - 1) : xs[k] <= xs[k + 1]
\* the step nodes of sequence_order v that an edge from the start node enters
StartTargetsOfOrder(v) ==
    {k \in 1..Len(nodes) : /\ ~nodes[k].isStartNode
                           /\ nodes[k].sequence_order = v
                           /\ BagIn(Edge(StartId, nodes[k].id), edges)}

\* C16: the compiled document carries iterable_steps and get_iterate_list
\* exactly when iterate_flow is true; iterable_steps then lists, in ascending
\* order, the sequence_order of every step node an edge from the start node
\* enters, and get_iterate_list is the iteration query as it stands
C16_IterationFieldsIffIterateFlow ==
    LET d == compileOf(store)
    IN /\ d.iterate_flow = iterateFlow
       /\ IsSome(d.iterable_steps) <=> iterateFlow
       /\ IsSome(d.get_iterate_list) <=> iterateFlow
       /\ iterateFlow =>
            /\ Get(d.get_iterate_list) = getIterateList
            /\ NonDecreasing(Get(d.iterable_steps))
            /\ \A v \in 0..(RtSteps + 1) :
                 Count(Get(d.iterable_steps), v) = Cardinality(StartTargetsOfOrder(v))

\* an iterated flow exported with two start targets stored against their
\* sequence_order, and a query with a leading blank
C16_Witness ==
    /\ iterateFlow
    /\ IsSome(generatedResult) /\ Get(generatedResult) = compileOf(store)
    /\ Len(Get(compileOf(store).iterable_steps)) = 2
    /\ Get(compileOf(store).get_iterate_list) # Trim(getIterateList)
    /\ \E i, j \in 1..Len(nodes) :
         /\ i < j /\ nodes[i].sequence_order > nodes[j].sequence_order
         /\ BagIn(Edge(StartId, nodes[i].id), edges)
         /\ BagIn(Edge(StartId, nodes[j].id), edges)

(***************************************************************************)
(* Properties of the import                                                *)
(***************************************************************************)
\* C17: when an import completes, nodes, edges, flowName, iterateFlow and the
\* iteration query are together what the reconstruction of the document
\* gives; nothing of the state before is kept
C17_ImportReplacesWholeState ==
    [][\A file \in Files :
          (onload(file) /\ importCompletes(file))
              => store' = restoreFlowFromJson(Get(file.json))]_vars

\* the state an import of the iterated document leaves
C17_Witness ==
    /\ reads = 0
    /\ \E d \in ImportDocs : d.iterate_flow /\ store = restoreFlowFromJson(d)
    /\ flowName = Str_Imported /\ StepCount(nodes) = 2 /\ startEdgesCount(edges) = 2

\* C18: when an import fails (the text does not parse, or the reconstruction
\* throws), nodes, edges and the global settings stay what they were
C18_FailedImportLeavesState ==
    [][\A file \in Files :
          (onload(file) /\ ~importCompletes(file))
              => UNCHANGED <<nodes, edges, flowName, iterateFlow, getIterateList>>]_vars

\* a read is in flight over an edited graph: its failure has something to keep
C18_Witness ==
    /\ reads > 0
    /\ StepCount(nodes) = 2 /\ edges # EmptyBag /\ iterateFlow
    /\ \E file \in Files : ~importCompletes(file)

\* C19: a payload that parses to a number, string, boolean, array or null is
\* rejected and leaves nodes, edges and the global settings as they were
C19_NonObjectPayloadRejected ==
    [][\A file \in Files :
          (onload(file) /\ file.kind \in {"scalar", "null"})
              => UNCHANGED <<nodes, edges, flowName, iterateFlow, getIterateList>>]_vars

\* C20: the reconstruction of an object-shaped document never fails, whatever
\* the shape of its fields
C20_ReconstructNeverFails ==
    [][\A file \in Files :
          (onload(file) /\ file.kind = "object") => importCompletes(file)]_vars

(***************************************************************************)
(* Properties of the time range                                            *)
(***************************************************************************)
\* C21: a node reconstructed from a step record has time_amount and
\* time_grain set together or not at all: when a check of the time_range parse
\* fails, both are left unset
C21_TimeAmountAndGrainSetTogether ==
    \A i \in 1..Len(StepNodes) :
        (StepNodes[i].time_amount # 0) <=> IsSome(StepNodes[i].time_grain)

\* C25: at most one file read is in flight at any time
C25_AtMostOneImportInFlight == reads <= 1

\* the step record compiled for a node of the store
CompiledStep(n) == stepJson(nodes, edges, n)
TimedSql(n) ==
    /\ n.type = Some(StepType_SQL)
    /\ n.time_amount > 0
    /\ IsSome(n.time_grain) /\ Get(n.time_grain) \in TimeGrains
\* time_range is "last_<a>_<g>s" and parses back to a and g
TimeRangeRoundTrip(n) ==
    /\ CompiledStep(n).time_range
         = Some(TimeRangeText(IntToStr(n.time_amount), Get(n.time_grain) \o <<"s">>))
    /\ restored_time_amount(CompiledStep(n)) = n.time_amount
    /\ restored_time_grain(CompiledStep(n)) = n.time_grain

\* C22 (as claimed): every SQL step with a positive time_amount and a
\* time_grain day or month is compiled with time_range "last_<a>_<g>s", which
\* reconstructs to the same amount and grain
C22_TimeRangeRoundTrip ==
    \A i \in 1..Len(StepNodes) : TimedSql(StepNodes[i]) => TimeRangeRoundTrip(StepNodes[i])

\* C22 (amended): the same, for the SQL steps whose time column is set
C22_TimeRangeRoundTripWithTimeColumn ==
    \A i \in 1..Len(StepNodes) :
        (TimedSql(StepNodes[i]) /\ Truthy(StepNodes[i].append_time_column))
            => TimeRangeRoundTrip(StepNodes[i])

\* 7 and day were exported as last_7_days and imported again
C22_Witness ==
    /\ Imported
    /\ \E i \in 1..Len(StepNodes) :
         /\ TimedSql(StepNodes[i]) /\ Truthy(StepNodes[i].append_time_column)
         /\ StepNodes[i].time_amount = 7 /\ StepNodes[i].time_grain = Some(Str_day)
         /\ CompiledStep(StepNodes[i]).time_range
              = Some(<<"l", "a", "s", "t", "_", "7", "_", "d", "a", "y", "s">>)

(***************************************************************************)
(* Properties of the warnings on the shape of the graph                    *)
(***************************************************************************)
HasCycle == \E id \in StepIds(nodes) : Reach(id, id, Len(nodes))
Disconnected(id) == \A e \in BagToSet(edges) : e.source # id /\ e.target # id

\* C23: whenever the step graph holds a directed cycle, a self-loop included,
\* the warning list is not empty and the flow is not reported as valid
C23_CycleIsReported ==
    HasCycle => (Warnings # <<>> /\ ~isValidFlow(nodes, edges, iterateFlow, getIterateList))

\* C24: whenever a step node has no incoming and no outgoing edge, the warning
\* list is not empty and the flow is not reported as valid
C24_DisconnectedStepIsReported ==
    (\E id \in StepIds(nodes) : Disconnected(id))
        => (Warnings # <<>> /\ ~isValidFlow(nodes, edges, iterateFlow, getIterateList))

(***************************************************************************)
(* Properties of addNode                                                   *)
(***************************************************************************)
LargestOrder(ns) ==
    CHOOSE m \in {ns[k].sequence_order : k \in 1..Len(ns)} :
        \A k \in 1..Len(ns) : ns[k].sequence_order <= m

\* C26: addNode(kind) appends one node of that kind whose sequence_order is 1
\* plus the largest sequence_order of the nodes there are (the start node's 0
\* among them), an order no node has yet; the nodes there are and the edges
\* stay as they were
C26_AddNodeAppendsMaxPlusOne ==
    [][\A type \in StepTypes :
          addNode(type) =>
              /\ Len(nodes') = Len(nodes) + 1
              /\ SubSeq(nodes', 1, Len(nodes)) = nodes
              /\ nodes'[Len(nodes')].type = Some(type)
              /\ ~nodes'[Len(nodes')].isStartNode
              /\ nodes'[Len(nodes')].sequence_order = 1 + LargestOrder(nodes)
              /\ \A k \in 1..Len(nodes) :
                     nodes[k].sequence_order # nodes'[Len(nodes')].sequence_order
              /\ edges' = edges]_vars

\* a node was added behind a step whose order had been edited, next to an edge
C26_Witness ==
    /\ Len(nodes) = 3
    /\ nodes[2].sequence_order = 0
    /\ nodes[3] = [newNode(SubSeq(nodes, 1, 2), StepType_LLM) EXCEPT !.sequence_order = 1]
    /\ edges # EmptyBag

(***************************************************************************)
(* Properties of what the round trip keeps                                 *)
(***************************************************************************)
\* the step nodes of the reconstructed node array rns that carry sequence_order o
TwinsOf(rns, o) == {k \in 1..Len(rns) : ~rns[k].isStartNode /\ rns[k].sequence_order = o}
NodeOfId(id) == nodes[CHOOSE k \in 1..Len(nodes) : nodes[k].id = id]
\* the reconstructed graph has an edge between the twins of the ends of e
EdgeKept(rns, res, e) ==
    \E a \in (IF e.source = StartId THEN {1} ELSE TwinsOf(rns, NodeOfId(e.source).sequence_order)),
       b \in TwinsOf(rns, NodeOfId(e.target).sequence_order) :
        BagIn(Edge(rns[a].id, rns[b].id), res)
\* one twin per step node, with the same content and a kind SameKind accepts;
\* every step -> step edge kept, and every start -> step edge of an iterated flow
RoundTripKeeps(SameKind(_, _)) ==
    LET restored == restoreFlowFromJson(compileOf(store))
        rns == restored.nodes
        res == restored.edges
    IN /\ Len(rns) = Len(nodes)
       /\ \A i \in 1..Len(StepNodes) :
            /\ Cardinality(TwinsOf(rns, StepNodes[i].sequence_order)) = 1
            /\ \A k \in TwinsOf(rns, StepNodes[i].sequence_order) :
                 /\ SameKind(StepNodes[i].type, rns[k].type)
                 /\ rns[k].value = StepNodes[i].value
       /\ \A e \in BagToSet(edges) : (e.source # StartId \/ iterateFlow) => EdgeKept(rns, res, e)
KindEqual(before, after) == after = before
KindEqualOrDefaulted(before, after) ==
    after = (IF TruthyAtom(before) THEN before ELSE Some(StepType_SQL))

\* C27 (as claimed): for a graph with pairwise distinct step orders the
\* reconstruction of its compiled document has one step node per step node,
\* of the same order, kind and content, keeps every step -> step edge, and
\* keeps every start -> step edge when the flow iterates
C27_RoundTripKeepsNodesAndEdges ==
    DistinctStepOrders(nodes) => RoundTripKeeps(KindEqual)

\* C27 (amended): the same, a node without a kind coming back as SQL
C27_RoundTripKeepsNodesAndEdgesKindDefaulted ==
    DistinctStepOrders(nodes) => RoundTripKeeps(KindEqualOrDefaulted)

\* an iterated flow of three steps with a start edge, a step -> step edge and
\* a self-loop has been exported
C27_Witness ==
    /\ DistinctStepOrders(nodes) /\ iterateFlow
    /\ StepCount(nodes) = 3
    /\ IsSome(generatedResult) /\ Get(generatedResult) = compileOf(store)
    /\ \E e \in BagToSet(edges) : e.source = StartId
    /\ \E e \in BagToSet(edges) : e.source # StartId /\ e.source # e.target
    /\ nodes[2].sequence_order > nodes[3].sequence_order

(***************************************************************************)
(* Properties of the compiled time configuration and kind                  *)
(***************************************************************************)
TimeColumnWithoutRange(n) ==
    IsSome(CompiledStep(n).append_time_column) /\ ~IsSome(CompiledStep(n).time_range)

\* C28: whenever a step is compiled with append_time_column and without
\* time_range, the warnings of the same graph hold the incomplete time
\* configuration diagnostic of that step
C28_MissingTimeRangeIsReported ==
    \A i \in 1..Len(StepNodes) :
        TimeColumnWithoutRange(StepNodes[i])
            => Count(WarningsOf(StepNodes[i]), W_TimeConfig(StepNodes[i].sequence_order)) = 1

\* a step with a time column and a grain but no amount has been exported, and
\* is reported
C28_Witness ==
    /\ IsSome(generatedResult) /\ Get(generatedResult) = compileOf(store)
    /\ \E i \in 1..Len(StepNodes) :
         /\ TimeColumnWithoutRange(StepNodes[i])
         /\ IsSome(StepNodes[i].time_grain)
         /\ Count(Warnings, W_TimeConfig(StepNodes[i].sequence_order)) = 1
    /\ StepCount(nodes) = 3

\* C29: a step node without a kind is compiled as the same node of kind SQL
\* would be: type "sql", and the SQL fields under the same conditions
C29_NoKindCompiledAsSql ==
    \A i \in 1..Len(StepNodes) :
        ~TruthyAtom(StepNodes[i].type)
            => CompiledStep(StepNodes[i])
                 = stepJson(nodes, edges, [StepNodes[i] EXCEPT !.type = Some(StepType_SQL)])

====
